---- MODULE Spec2Model ----
(***************************************************************************)
(* Model of the trip-visualization core:                                   *)
(*   - the geocoding gateway and its module-level rate limiter             *)
(*     (src/src/utils/geocoding.ts, lines 1-108),                          *)
(*   - the localStorage persistence codec (same file, lines 110-236),      *)
(*   - the pure derivation helpers (src/unnamed/part_000, lines 74-163).   *)
(* The three parts share no state, so each has its own specification:      *)
(* SpecGeo / SpecGeoFair, SpecStore and SpecItems.                         *)
(***************************************************************************)
EXTENDS Integers, Sequences, FiniteSets, TLC

VARIABLES
    \* ---- geocoding gateway ----
    now,              \* the value Date.now() returns (ms)
    lastRequestTime,  \* module variable, geocoding.ts:7
    pc,               \* per caller: "idle" | "waiting" (in setTimeout) | "fetching"
    wake,             \* per caller: instant at which its setTimeout is due
    kind,             \* per caller: "geocode" | "reverse", the call in progress
    settled,          \* the call that ended last: its kind, what the
                      \* environment did to it, and what its caller observed
    requests,         \* history: issue instants of the outbound fetch() calls
    sent,             \* per caller: fetch() calls issued by its call in progress
    \* ---- persistence codec ----
    storage,          \* localStorage: the two keys the module uses
    result,           \* what the last storage call returned
    raised,           \* whether the last storage call threw to its caller
    reported,         \* whether the last storage call logged via console.error
    lastOp,           \* name of the last storage call
    lastGoodSave,     \* history: the trip set of the last save that was written
    \* ---- derivation helpers ----
    items,            \* the item collection handed to the helpers
    allLocs,          \* result of getAllLocations(items)
    tripBounds,       \* result of calculateTripBounds(items)
    route,            \* result of getRouteLocations(items)
    filtered          \* result of filterItemsByType / getItemsByDateRange

geoVars   == <<now, lastRequestTime, pc, wake, kind, settled, requests, sent>>
storeVars == <<storage, result, raised, reported, lastOp, lastGoodSave>>
itemVars  == <<items, allLocs, tripBounds, route, filtered>>
vars      == <<geoVars, storeVars, itemVars>>

(***************************************************************************)
(* Bounds of the model.                                                    *)
(***************************************************************************)
NumCallers  == 2      \* concurrent callers of the gateway
MaxRequests == 3      \* outbound requests issued in one run
TickMs      == 500    \* granularity with which the clock is observed
MaxTime     == 2000   \* no call starts at or after this instant

(***************************************************************************)
(* Strings are sequences of text pieces; Concat drops nothing but keeps    *)
(* the pieces in order, so two messages are equal iff their pieces are.    *)
(***************************************************************************)
Concat(a, b) == a \o b

\* ======================================================================
\*                         GEOCODING GATEWAY
\* ======================================================================
MIN_REQUEST_INTERVAL == 1000

Callers == 1..NumCallers

\* Addresses are sequences of characters.
Whitespace == {" "}

RECURSIVE TrimStart(_)
TrimStart(s) ==
    IF s # <<>> /\ Head(s) \in Whitespace THEN TrimStart(Tail(s)) ELSE s

RECURSIVE TrimEnd(_)
TrimEnd(s) ==
    IF s # <<>> /\ s[Len(s)] \in Whitespace
    THEN TrimEnd(SubSeq(s, 1, Len(s) - 1)) ELSE s

Trim(s) == TrimEnd(TrimStart(s))

\* geocoding.ts:28  !address || address.trim() === ''
IsBlank(address) == address = <<>> \/ Trim(address) = <<>>

Addresses == { <<>>, <<" ", " ">>, <<" ", "T", "o", "k", "y", "o">> }

\* What the caller of a call observes.
NoOutcome      == [settled |-> "none",     name |-> "",      message |-> <<>>]
Resolved       == [settled |-> "resolved", name |-> "",      message |-> <<>>]
Rejected(msg)  == [settled |-> "rejected", name |-> "Error", message |-> msg]

\* What the provider / transport can do to an outbound request.
StatusTexts == { <<>>, <<"Too Many Requests">> }
Responses ==
    { [type |-> "match",    text |-> <<>>],                   \* ok, non-empty data
      [type |-> "nomatch",  text |-> <<>>],                   \* ok, empty data
      [type |-> "network",  text |-> <<"Failed to fetch">>],  \* fetch() rejects
      [type |-> "badjson",  text |-> <<"Unexpected token">>], \* response.json() rejects
      [type |-> "nonerror", text |-> <<>>] }                  \* rejects with a non-Error
    \cup { [type |-> "status", text |-> s] : s \in StatusTexts }  \* !response.ok

\* The condition the claim's taxonomy gives a response.
CondOf(resp) ==
    CASE resp.type = "match"   -> "none"
      [] resp.type = "nomatch" -> "notfound"
      [] OTHER                 -> "transport"

\* Mutant of GeocodeCatch: the caught error's message is dropped.
GeocodeCatchDropsMessage(isError, message) ==
    Rejected(<<"Failed to geocode address">>)

\* geocoding.ts:64-69, the catch clause of geocodeAddress (error is an Error,
\* or something else that was thrown).
GeocodeCatch(isError, message) ==
    IF isError
    THEN Rejected(Concat(<<"Geocoding error: ">>, message))
    ELSE Rejected(<<"Failed to geocode address">>)

\* geocoding.ts:40-69, geocodeAddress once fetch() has settled.
GeocodeSettle(resp) ==
    CASE resp.type = "match"    -> Resolved
      [] resp.type = "status"   ->
            GeocodeCatch(TRUE, Concat(<<"Geocoding failed: ">>, resp.text))
      [] resp.type = "nomatch"  ->
            GeocodeCatch(TRUE,
                <<"Address not found. Please try a different address format.">>)
      [] resp.type = "nonerror" -> GeocodeCatch(FALSE, <<>>)
      [] OTHER                  -> GeocodeCatch(TRUE, resp.text)

\* geocoding.ts:102-107
ReverseCatch(isError, message) ==
    IF isError
    THEN Rejected(Concat(<<"Reverse geocoding error: ">>, message))
    ELSE Rejected(<<"Failed to reverse geocode coordinates">>)

\* geocoding.ts:84-107, reverseGeocode once fetch() has settled.
ReverseSettle(resp) ==
    CASE resp.type = "match"    -> Resolved
      [] resp.type = "status"   ->
            ReverseCatch(TRUE, Concat(<<"Reverse geocoding failed: ">>, resp.text))
      [] resp.type = "nomatch"  ->
            ReverseCatch(TRUE, <<"Unable to find address for coordinates">>)
      [] resp.type = "nonerror" -> ReverseCatch(FALSE, <<>>)
      [] OTHER                  -> ReverseCatch(TRUE, resp.text)

\* geocoding.ts:20 followed, in the same turn of the event loop, by the
\* caller's fetch() (lines 41 / 85): stamp the limiter and issue the request.
StampAndFetch(c) ==
    /\ lastRequestTime' = now
    /\ requests' = Append(requests, now)
    /\ sent' = [sent EXCEPT ![c] = @ + 1]
    /\ pc' = [pc EXCEPT ![c] = "fetching"]

\* geocoding.ts:10-21, waitForRateLimit up to its first suspension point.
waitForRateLimit(c) ==
    LET timeSinceLastRequest == now - lastRequestTime IN
    IF timeSinceLastRequest < MIN_REQUEST_INTERVAL
    THEN /\ pc' = [pc EXCEPT ![c] = "waiting"]
         /\ wake' = [wake EXCEPT
                        ![c] = now + (MIN_REQUEST_INTERVAL - timeSinceLastRequest)]
         /\ UNCHANGED <<lastRequestTime, requests, sent>>
    ELSE /\ StampAndFetch(c)
         /\ wake' = [wake EXCEPT ![c] = 0]    \* no timer is set

\* A call may start while the run still has requests to spend and the clock
\* has not reached its bound.
MayCall(c) ==
    /\ pc[c] = "idle"
    /\ Len(requests) + Cardinality({d \in Callers : pc[d] = "waiting"}) < MaxRequests
    /\ now < MaxTime

\* geocoding.ts:29
EmptyAddressError == Rejected(<<"Address cannot be empty">>)

\* Mutant of geocodeAddress: the address is validated after the limiter has
\* been passed, so a blank call stamps lastRequestTime.
geocodeAddressChecksLate(c, address) ==
    /\ MayCall(c)
    /\ IF IsBlank(address)
       THEN /\ settled' = [kind |-> "geocode", cond |-> "blank",
                           outcome |-> EmptyAddressError]
            /\ lastRequestTime' = now
            /\ UNCHANGED <<now, pc, wake, kind, requests, sent>>
       ELSE /\ waitForRateLimit(c)
            /\ kind' = [kind EXCEPT ![c] = "geocode"]
            /\ UNCHANGED <<now, settled>>
    /\ UNCHANGED <<storeVars, itemVars>>

\* geocoding.ts:27-32
geocodeAddress(c, address) ==
    /\ MayCall(c)
    /\ IF IsBlank(address)
       THEN /\ settled' = [kind |-> "geocode", cond |-> "blank",
                           outcome |-> EmptyAddressError]
            /\ UNCHANGED <<now, lastRequestTime, pc, wake, kind, requests, sent>>
       ELSE /\ waitForRateLimit(c)
            /\ kind' = [kind EXCEPT ![c] = "geocode"]
            /\ UNCHANGED <<now, settled>>
    /\ UNCHANGED <<storeVars, itemVars>>

\* geocoding.ts:75-76
reverseGeocode(c) ==
    /\ MayCall(c)
    /\ waitForRateLimit(c)
    /\ kind' = [kind EXCEPT ![c] = "reverse"]
    /\ UNCHANGED <<now, settled, storeVars, itemVars>>

\* Mutant of TimerFire: a caller that arrived too early is turned away once
\* its timer is due, and issues nothing.
TimerFireRejects(c) ==
    /\ pc[c] = "waiting"
    /\ now >= wake[c]
    /\ pc' = [pc EXCEPT ![c] = "idle"]
    /\ settled' = [kind |-> kind[c], cond |-> "ratelimit",
                   outcome |-> Rejected(<<"Rate limited">>)]
    /\ UNCHANGED <<now, lastRequestTime, requests, sent, wake, kind,
                   storeVars, itemVars>>

\* geocoding.ts:15-20, the continuation of waitForRateLimit after its timer.
\* setTimeout never fires early; it may fire late.
TimerFire(c) ==
    /\ pc[c] = "waiting"
    /\ now >= wake[c]
    /\ StampAndFetch(c)
    /\ UNCHANGED <<now, wake, kind, settled, storeVars, itemVars>>

\* Mutant of Respond: a request that failed is issued once more before the
\* call gives up.
RespondRetries(c, resp) ==
    /\ pc[c] = "fetching"
    /\ IF CondOf(resp) # "none" /\ sent[c] < 2
       THEN /\ requests' = Append(requests, now)
            /\ sent' = [sent EXCEPT ![c] = @ + 1]
            /\ UNCHANGED <<pc, settled>>
       ELSE /\ pc' = [pc EXCEPT ![c] = "idle"]
            /\ sent' = [sent EXCEPT ![c] = 0]
            /\ settled' = [kind |-> kind[c], cond |-> CondOf(resp),
                           outcome |-> IF kind[c] = "geocode"
                                       THEN GeocodeSettle(resp)
                                       ELSE ReverseSettle(resp)]
            /\ UNCHANGED requests
    /\ UNCHANGED <<now, lastRequestTime, wake, kind, storeVars, itemVars>>

\* geocoding.ts:40-69 and 84-107: the request settles and the call ends,
\* by a return or by the throw of the catch clause; nothing loops back.
Respond(c, resp) ==
    /\ pc[c] = "fetching"
    /\ pc' = [pc EXCEPT ![c] = "idle"]
    /\ sent' = [sent EXCEPT ![c] = 0]
    /\ settled' = [kind |-> kind[c], cond |-> CondOf(resp),
                   outcome |-> IF kind[c] = "geocode" THEN GeocodeSettle(resp)
                                                      ELSE ReverseSettle(resp)]
    /\ UNCHANGED <<now, lastRequestTime, wake, kind, requests, storeVars, itemVars>>

\* Time passes.  The clock runs until every timer set before MaxTime is due.
Tick ==
    /\ now < MaxTime + MIN_REQUEST_INTERVAL
    /\ now' = now + TickMs
    /\ UNCHANGED <<lastRequestTime, pc, wake, kind, settled, requests, sent,
                   storeVars, itemVars>>

\* ======================================================================
\*                         PERSISTENCE CODEC
\* ======================================================================
MaxTrips == 2         \* trips in one saved trip set

\* --- JavaScript values that can sit in a date field --------------------
\* A Date carries its time value as (day, ms): whole days since the epoch
\* and milliseconds within that day (time value = day * MsPerDay + ms).
MsPerDay == 24 * 60 * 60 * 1000

Undefined       == [k |-> "undefined",   day |-> 0,   ms |-> 0,  iso |-> <<>>]
JsonNull        == [k |-> "null",        day |-> 0,   ms |-> 0,  iso |-> <<>>]
InvalidDate     == [k |-> "InvalidDate", day |-> 0,   ms |-> 0,  iso |-> <<>>]
DateOf(day, ms) == [k |-> "Date",        day |-> day, ms |-> ms, iso |-> <<>>]
\* A string; iso holds the fields of its text YYYY-MM-DDTHH:mm:ss.sssZ.
StringOf(iso)   == [k |-> "string",      day |-> 0,   ms |-> 0,  iso |-> iso]

\* Date.prototype.toISOString: the UTC calendar fields of a time value.
toISOString(d) ==
    LET z     == d.day + 719468
        era   == z \div 146097
        doe   == z - era * 146097
        yoe   == (doe - (doe \div 1460) + (doe \div 36524) - (doe \div 146096)) \div 365
        doy   == doe - (365 * yoe + (yoe \div 4) - (yoe \div 100))
        mp    == (5 * doy + 2) \div 153
        dom   == doy - ((153 * mp + 2) \div 5) + 1
        month == IF mp < 10 THEN mp + 3 ELSE mp - 9
        year  == yoe + era * 400 + (IF month <= 2 THEN 1 ELSE 0)
    IN  << year, month, dom,
           d.ms \div 3600000, (d.ms \div 60000) % 60, (d.ms \div 1000) % 60,
           d.ms % 1000 >>

DaysInMonth(year, month) ==
    IF month = 2
    THEN IF (year % 4 = 0 /\ year % 100 # 0) \/ year % 400 = 0 THEN 29 ELSE 28
    ELSE IF month \in {4, 6, 9, 11} THEN 30 ELSE 31

\* Whether a string is a date-time text that Date can parse.
IsIsoText(iso) ==
    /\ Len(iso) = 7
    /\ iso[2] \in 1..12
    /\ iso[3] \in 1..DaysInMonth(iso[1], iso[2])
    /\ iso[4] \in 0..23 /\ iso[5] \in 0..59 /\ iso[6] \in 0..59
    /\ iso[7] \in 0..999

\* Date.parse of a date-time text: the time value of its UTC fields.
ParseIso(iso) ==
    LET y   == iso[1] - (IF iso[2] <= 2 THEN 1 ELSE 0)
        era == y \div 400
        yoe == y - era * 400
        mp  == IF iso[2] > 2 THEN iso[2] - 3 ELSE iso[2] + 9
        doy == ((153 * mp + 2) \div 5) + iso[3] - 1
        doe == yoe * 365 + (yoe \div 4) - (yoe \div 100) + doy
    IN  DateOf(era * 146097 + doe - 719468,
               ((iso[4] * 60 + iso[5]) * 60 + iso[6]) * 1000 + iso[7])

\* new Date(value), for the values JSON.parse can hand it.
NewDate(v) ==
    CASE v.k = "string"    -> IF IsIsoText(v.iso) THEN ParseIso(v.iso) ELSE InvalidDate
      [] v.k = "null"      -> DateOf(0, 0)
      [] v.k = "undefined" -> InvalidDate
      [] OTHER             -> v

\* JavaScript truthiness of such a value (the empty string is falsy).
Truthy(v) ==
    /\ v.k \notin {"undefined", "null"}
    /\ ~(v.k = "string" /\ v.iso = <<>>)

\* JSON.stringify of a date field: Date.prototype.toJSON runs before the
\* replacer of geocoding.ts:118-124 sees the value; both give the ISO text.
DateToJSON(v) ==
    CASE v.k = "Date"        -> StringOf(toISOString(v))
      [] v.k = "InvalidDate" -> JsonNull
      [] OTHER               -> v

\* The fields of the domain model that hold dates (part_000:10-57).
DateFields ==
    {"startDate", "endDate", "createdAt", "updatedAt",
     "departureTime", "arrivalTime", "checkIn", "checkOut"}

\* JSON.stringify of one item: dates become text, undefined fields vanish.
StringifyItem(item) ==
    [f \in {g \in DOMAIN item : ~(g \in DateFields /\ item[g].k = "undefined")} |->
        IF f \in DateFields THEN DateToJSON(item[f]) ELSE item[f]]

StringifyTrip(trip) ==
    [f \in {g \in DOMAIN trip : ~(g \in DateFields /\ trip[g].k = "undefined")} |->
        CASE f \in DateFields -> DateToJSON(trip[f])
          [] f = "items"      -> [i \in DOMAIN trip.items |-> StringifyItem(trip.items[i])]
          [] OTHER            -> trip[f]]

\* --- the text held under a localStorage key -----------------------------
\* A text is modelled by what JSON.parse makes of it: k = "absent" (getItem
\* gives null), "empty" (the text ''), "garbage" (not JSON) or "json".
JsonArray(elems) == [k |-> "array",  elems |-> elems]
JsonOther(what)  == [k |-> what,     elems |-> <<>>]
AbsentBlob       == [k |-> "absent",  json |-> JsonOther("none")]
EmptyBlob        == [k |-> "empty",   json |-> JsonOther("none")]
GarbageBlob      == [k |-> "garbage", json |-> JsonOther("none")]
JsonBlob(j)      == [k |-> "json",    json |-> j]
\* The JSON literal null as an array element.
NullElement      == [null |-> TRUE]

\* geocoding.ts:117-125
serializeTrips(trips) ==
    JsonBlob(JsonArray([i \in DOMAIN trips |-> StringifyTrip(trips[i])]))

\* Results of code that can throw.
Threw     == [threw |-> TRUE,  value |-> <<>>]
Value(v)  == [threw |-> FALSE, value |-> v]

\* obj.f on a parsed object: undefined when the key is missing.
Get(obj, f) == IF f \in DOMAIN obj THEN obj[f] ELSE Undefined
TypeOf(obj) == IF "type" \in DOMAIN obj THEN obj.type ELSE ""

\* Mutant of ReviveItem: the discriminant is ignored, only the base item's
\* dates are revived.
ReviveItemBaseOnly(item) ==
    IF item = NullElement
    THEN Threw
    ELSE Value([f \in DOMAIN item \cup {"startDate", "endDate"} |->
                  CASE f = "startDate" -> NewDate(Get(item, "startDate"))
                    [] f = "endDate"   -> IF Truthy(Get(item, "endDate"))
                                          THEN NewDate(Get(item, "endDate"))
                                          ELSE Undefined
                    [] OTHER           -> item[f]])

\* geocoding.ts:139-161, the callback of trip.items.map
ReviveItem(item) ==
    IF item = NullElement
    THEN Threw        \* TypeError: reading a property of null
    ELSE
      LET baseItem ==
            [f \in DOMAIN item \cup {"startDate", "endDate"} |->
                CASE f = "startDate" -> NewDate(Get(item, "startDate"))
                  [] f = "endDate"   -> IF Truthy(Get(item, "endDate"))
                                        THEN NewDate(Get(item, "endDate"))
                                        ELSE Undefined
                  [] OTHER           -> item[f]]
      IN  CASE TypeOf(item) = "flight" ->
                 Value([f \in DOMAIN baseItem \cup {"departureTime", "arrivalTime"} |->
                    CASE f = "departureTime" -> NewDate(Get(item, "departureTime"))
                      [] f = "arrivalTime"   -> NewDate(Get(item, "arrivalTime"))
                      [] OTHER               -> baseItem[f]])
            [] TypeOf(item) = "accommodation" ->
                 Value([f \in DOMAIN baseItem \cup {"checkIn", "checkOut"} |->
                    CASE f = "checkIn"  -> NewDate(Get(item, "checkIn"))
                      [] f = "checkOut" -> NewDate(Get(item, "checkOut"))
                      [] OTHER          -> baseItem[f]])
            [] OTHER -> Value(baseItem)

\* array.map(callback) where the callback can throw.
MapThrowing(rs) ==
    IF \E i \in DOMAIN rs : rs[i].threw
    THEN Threw
    ELSE Value([i \in DOMAIN rs |-> rs[i].value])

\* geocoding.ts:133-162, the callback of parsed.map
ReviveTrip(trip) ==
    IF trip = NullElement
    THEN Threw        \* TypeError: reading a property of null
    ELSE IF "items" \notin DOMAIN trip
    THEN Threw        \* TypeError: trip.items is undefined
    ELSE
      LET revived == MapThrowing([i \in DOMAIN trip.items |-> ReviveItem(trip.items[i])])
      IN  IF revived.threw
          THEN Threw
          ELSE Value(
                [f \in DOMAIN trip \cup {"startDate", "endDate", "createdAt", "updatedAt"} |->
                    CASE f = "items"     -> revived.value
                      [] f = "startDate" -> NewDate(Get(trip, "startDate"))
                      [] f = "endDate"   -> NewDate(Get(trip, "endDate"))
                      [] f = "createdAt" -> NewDate(Get(trip, "createdAt"))
                      [] f = "updatedAt" -> NewDate(Get(trip, "updatedAt"))
                      [] OTHER           -> trip[f]])

\* geocoding.ts:130-163
deserializeTrips(data) ==
    IF data.k # "json"
    THEN Threw        \* SyntaxError from JSON.parse
    ELSE IF data.json.k # "array"
    THEN Threw        \* TypeError: parsed.map is not a function
    ELSE MapThrowing([i \in DOMAIN data.json.elems |-> ReviveTrip(data.json.elems[i])])

\* --- the storage calls ----------------------------------------------------
\* A current trip id: NoId is null (getItem on a missing key).
NoId == "<null>"

\* Mutant of saveTrips: the key is removed before the new text is written,
\* so a write that fails leaves the store without its trips.
saveTripsRemovesFirst(st, trips, writeFails) ==
    IF writeFails
    THEN [storage |-> [st EXCEPT !.trips = AbsentBlob],
          raised |-> FALSE, reported |-> TRUE]
    ELSE [storage |-> [st EXCEPT !.trips = serializeTrips(trips)],
          raised |-> FALSE, reported |-> FALSE]

\* geocoding.ts:168-180.  writeFails: localStorage.setItem throws (quota).
saveTrips(st, trips, writeFails) ==
    IF writeFails
    THEN [storage |-> st, raised |-> FALSE, reported |-> TRUE]
    ELSE [storage |-> [st EXCEPT !.trips = serializeTrips(trips)],
          raised |-> FALSE, reported |-> FALSE]

\* Mutant of loadTrips: no try/catch around the parse.
loadTripsNoCatch(st) ==
    IF st.trips.k \in {"absent", "empty"}
    THEN [value |-> <<>>, raised |-> FALSE, reported |-> FALSE]
    ELSE LET r == deserializeTrips(st.trips)
         IN  [value |-> r.value, raised |-> r.threw, reported |-> FALSE]

\* geocoding.ts:185-198
loadTrips(st) ==
    IF st.trips.k \in {"absent", "empty"}          \* !data
    THEN [value |-> <<>>, raised |-> FALSE, reported |-> FALSE]
    ELSE LET r == deserializeTrips(st.trips)
         IN  IF r.threw
             THEN [value |-> <<>>,    raised |-> FALSE, reported |-> TRUE]
             ELSE [value |-> r.value, raised |-> FALSE, reported |-> FALSE]

\* geocoding.ts:203-209
clearStorage(st) == [st EXCEPT !.trips = AbsentBlob]

\* geocoding.ts:214-224.  tripId is null (NoId), '' or an id.
saveCurrentTripId(st, tripId, writeFails) ==
    IF tripId \notin {NoId, ""}
    THEN IF writeFails
         THEN [storage |-> st, raised |-> FALSE, reported |-> TRUE]
         ELSE [storage |-> [st EXCEPT !.current = tripId],
               raised |-> FALSE, reported |-> FALSE]
    ELSE [storage |-> [st EXCEPT !.current = NoId],
          raised |-> FALSE, reported |-> FALSE]

\* geocoding.ts:229-236
loadCurrentTripId(st) == st.current

\* --- the trips the model saves ---------------------------------------------
Place(lat, lng, address) == [lat |-> lat, lng |-> lng, address |-> address]

FlightNRT ==
    [id |-> "i1", type |-> "flight", tripId |-> "t1",
     startDate |-> DateOf(19814, 28800000),      \* 2024-04-01T08:00:00.000Z
     endDate |-> Undefined,
     origin |-> Place(35, 140, "NRT"), destination |-> Place(35, 139, "HND"),
     departureTime |-> DateOf(19814, 28800000),
     arrivalTime |-> DateOf(19814, 64800000)]    \* 2024-04-01T18:00:00.000Z

ActivityShibuya ==
    [id |-> "i2", type |-> "activity", tripId |-> "t1",
     startDate |-> DateOf(19815, 36000000),      \* 2024-04-02T10:00:00.000Z
     endDate |-> DateOf(19815, 39600001),        \* 2024-04-02T11:00:00.001Z
     name |-> "Shibuya Crossing", location |-> Place(35, 139, "Shibuya"),
     activityType |-> "attraction"]

HotelEpoch ==
    [id |-> "i3", type |-> "accommodation", tripId |-> "t2",
     startDate |-> DateOf(-1, 86399999),         \* 1969-12-31T23:59:59.999Z
     endDate |-> DateOf(0, 0),                   \* 1970-01-01T00:00:00.000Z
     name |-> "Hotel", location |-> Place(0, 0, "Null Island"),
     checkIn |-> DateOf(-1, 86399999),
     checkOut |-> DateOf(59, 43200000)]          \* 1970-03-01T12:00:00.000Z

TripJapan ==
    [id |-> "t1", name |-> "Japan 2024",
     startDate |-> DateOf(19814, 0),             \* 2024-04-01
     endDate   |-> DateOf(19823, 0),             \* 2024-04-10
     createdAt |-> DateOf(19782, 86399999),      \* 2024-02-29T23:59:59.999Z
     updatedAt |-> DateOf(19814, 28800000),
     items |-> <<FlightNRT, ActivityShibuya>>]

TripEpoch ==
    [id |-> "t2", name |-> "Epoch",
     startDate |-> DateOf(-1, 86399999),
     endDate   |-> DateOf(59, 43200000),
     createdAt |-> DateOf(-366, 1),              \* 1968-12-31T00:00:00.001Z
     updatedAt |-> DateOf(0, 0),
     items |-> <<HotelEpoch>>]

TripEmpty ==
    [id |-> "t3", name |-> "",
     startDate |-> DateOf(11322, 0),             \* 2000-12-31
     endDate   |-> DateOf(11323, 0),             \* 2001-01-01
     createdAt |-> DateOf(11016, 45015123),      \* 2000-02-29T12:30:15.123Z
     updatedAt |-> DateOf(11017, 0),             \* 2000-03-01
     items |-> <<>>]

TripPool == {TripJapan, TripEpoch, TripEmpty}

\* Well-formed trip sets: trip ids are unique across the store.
TripSets ==
    UNION { { s \in [1..n -> TripPool] :
                \A i, j \in 1..n : i # j => s[i].id # s[j].id } : n \in 0..MaxTrips }

\* What the trips key can hold when the program starts: nothing, text left
\* by an earlier run, or text that is not a trip array.
InitialBlobs ==
    { AbsentBlob, EmptyBlob, GarbageBlob,
      JsonBlob(JsonOther("null")), JsonBlob(JsonOther("object")),
      JsonBlob(JsonArray(<<NullElement>>)),
      JsonBlob(JsonArray(<<[id |-> "t1"]>>)),
      JsonBlob(JsonArray(<<[id |-> "t1", items |-> <<NullElement>>]>>)),
      JsonBlob(JsonArray(<<[id |-> "t1", items |-> <<>>]>>)),
      serializeTrips(<<TripEpoch>>) }

TripIdInputs == {NoId, "", "t1", "t2", "t9"}

NoResult == [trips |-> <<>>, id |-> NoId]

SaveTrips(trips, writeFails) ==
    LET r == saveTrips(storage, trips, writeFails) IN
    /\ storage' = r.storage
    /\ raised' = r.raised
    /\ reported' = r.reported
    /\ result' = NoResult
    /\ lastOp' = "saveTrips"
    /\ lastGoodSave' = IF writeFails THEN lastGoodSave
                       ELSE [known |-> TRUE, trips |-> trips]
    /\ UNCHANGED <<geoVars, itemVars>>

LoadTrips ==
    LET r == loadTrips(storage) IN
    /\ result' = [trips |-> r.value, id |-> NoId]
    /\ raised' = r.raised
    /\ reported' = r.reported
    /\ lastOp' = "loadTrips"
    /\ UNCHANGED <<storage, lastGoodSave, geoVars, itemVars>>

ClearStorage ==
    /\ storage' = clearStorage(storage)
    /\ raised' = FALSE
    /\ reported' = FALSE
    /\ result' = NoResult
    /\ lastOp' = "clearStorage"
    /\ lastGoodSave' = [known |-> FALSE, trips |-> <<>>]
    /\ UNCHANGED <<geoVars, itemVars>>

SaveCurrentTripId(tripId, writeFails) ==
    LET r == saveCurrentTripId(storage, tripId, writeFails) IN
    /\ storage' = r.storage
    /\ raised' = r.raised
    /\ reported' = r.reported
    /\ result' = NoResult
    /\ lastOp' = "saveCurrentTripId"
    /\ UNCHANGED <<lastGoodSave, geoVars, itemVars>>

LoadCurrentTripId ==
    /\ result' = [trips |-> <<>>, id |-> loadCurrentTripId(storage)]
    /\ raised' = FALSE
    /\ reported' = FALSE
    /\ lastOp' = "loadCurrentTripId"
    /\ UNCHANGED <<storage, lastGoodSave, geoVars, itemVars>>

\* ======================================================================
\*                        DERIVATION HELPERS
\* ======================================================================
MaxItems == 3         \* items in one collection

\* Item k of a collection carries locations whose address names it, so
\* that a location in a result can be traced to the item that gave it.
Points     == { <<-10, 20>>, <<35, -140>> }
StartDates == {1, 2}      \* startDate.getTime()

Loc(p, k, role) == [lat |-> p[1], lng |-> p[2], address |-> <<k, role>>]

ItemsAt(k) ==
    { [type |-> "flight", startDate |-> d,
       origin |-> Loc(pq[1], k, "origin"),
       destination |-> Loc(pq[2], k, "destination")] :
         d \in StartDates, pq \in {x \in Points \X Points : x[1] # x[2]} }
    \cup
    { [type |-> t, startDate |-> d, location |-> Loc(p, k, "location")] :
         t \in {"accommodation", "activity"}, d \in StartDates, p \in Points }

\* The collections of exactly n items.
RECURSIVE CollectionsOfLen(_)
CollectionsOfLen(n) ==
    IF n = 0 THEN { <<>> }
    ELSE { Append(s, x) : s \in CollectionsOfLen(n - 1), x \in ItemsAt(n) }

\* The collections of at most max items.
ItemCollections(max) == UNION { CollectionsOfLen(n) : n \in 0..max }

\* Mutant of AllLocationsOf: a flight's destination is pushed first.
AllLocationsOfSwapped(item) ==
    IF item.type = "flight"
    THEN <<item.destination, item.origin>>
    ELSE IF item.type = "accommodation" \/ item.type = "activity"
    THEN <<item.location>>
    ELSE <<>>

\* part_000:106-113, the callback of items.forEach in getAllLocations
AllLocationsOf(item) ==
    IF item.type = "flight"
    THEN <<item.origin, item.destination>>
    ELSE IF item.type = "accommodation" \/ item.type = "activity"
    THEN <<item.location>>
    ELSE <<>>

\* part_000:106-113, items.forEach pushing onto locations
RECURSIVE PushAllLocations(_)
PushAllLocations(its) ==
    IF its = <<>> THEN <<>>
    ELSE AllLocationsOf(Head(its)) \o PushAllLocations(Tail(its))

\* part_000:103-116
getAllLocations(its) == PushAllLocations(its)

\* Leaflet LatLngBounds: a box [south, west] - [north, east].
Min2(a, b) == IF a <= b THEN a ELSE b
Max2(a, b) == IF a >= b THEN a ELSE b

\* new LatLngBounds(corner, corner) with both corners the same point.
SeedBounds(loc) ==
    [defined |-> TRUE, south |-> loc.lat, west |-> loc.lng,
                       north |-> loc.lat, east |-> loc.lng]

\* bounds.extend([lat, lng])
Extend(b, loc) ==
    [defined |-> TRUE,
     south |-> Min2(b.south, loc.lat), west |-> Min2(b.west, loc.lng),
     north |-> Max2(b.north, loc.lat), east |-> Max2(b.east, loc.lng)]

RECURSIVE ExtendAll(_, _)
ExtendAll(b, locs) ==
    IF locs = <<>> THEN b ELSE ExtendAll(Extend(b, Head(locs)), Tail(locs))

NoBounds == [defined |-> FALSE, south |-> 0, west |-> 0, north |-> 0, east |-> 0]

\* Mutant of calculateTripBounds: the box is seeded and never extended.
calculateTripBoundsSeedOnly(its) ==
    LET locations == getAllLocations(its) IN
    IF Len(locations) = 0 THEN NoBounds ELSE SeedBounds(locations[1])

\* part_000:122-139
calculateTripBounds(its) ==
    LET locations == getAllLocations(its) IN
    IF Len(locations) = 0
    THEN NoBounds                    \* undefined
    ELSE ExtendAll(SeedBounds(locations[1]), locations)

\* part_000:146-148: the comparator, and Array.prototype.sort, which is
\* stable: an element goes behind every element that does not compare
\* greater than it.
Compare(a, b) == a.startDate - b.startDate

RECURSIVE InsertStable(_, _)
InsertStable(sorted, x) ==
    IF sorted = <<>> THEN <<x>>
    ELSE IF Compare(Head(sorted), x) <= 0
         THEN <<Head(sorted)>> \o InsertStable(Tail(sorted), x)
         ELSE <<x>> \o sorted

RECURSIVE SortByStart(_)
SortByStart(its) ==
    IF its = <<>> THEN <<>>
    ELSE InsertStable(SortByStart(SubSeq(its, 1, Len(its) - 1)), its[Len(its)])

\* part_000:152-160, the callback of sortedItems.forEach
RouteLocationsOf(item) ==
    IF item.type = "flight"
    THEN <<item.origin, item.destination>>
    ELSE IF item.type = "activity"
    THEN <<item.location>>
    ELSE <<>>

\* part_000:152-160, sortedItems.forEach pushing onto route
RECURSIVE PushRouteLocations(_)
PushRouteLocations(its) ==
    IF its = <<>> THEN <<>>
    ELSE RouteLocationsOf(Head(its)) \o PushRouteLocations(Tail(its))

\* Mutant of SortCopy: items.sort(...) without the spread; sort reorders
\* its receiver, which is then the caller's array.
SortInPlace(its) == [arg |-> SortByStart(its), sorted |-> SortByStart(its)]

\* part_000:146-148, [...items].sort(...): sort reorders its receiver, the
\* spread copy; arg is the caller's array afterwards.
SortCopy(its) == [arg |-> its, sorted |-> SortByStart(its)]

\* Mutant of getRouteLocations: the items are walked unsorted.
getRouteLocationsUnsorted(its) == PushRouteLocations(its)

\* part_000:145-163
getRouteLocations(its) == PushRouteLocations(SortCopy(its).sorted)

\* part_000:80-85; Array.prototype.filter builds a new array.
filterItemsByType(its, type) ==
    SelectSeq(its, LAMBDA item : item.type = type)

\* part_000:90-98
getItemsByDateRange(its, startDate, endDate) ==
    SelectSeq(its, LAMBDA item :
                      item.startDate >= startDate /\ item.startDate <= endDate)

ItemTypes == {"flight", "accommodation", "activity"}

NotRun == [done |-> FALSE, value |-> <<>>]
Ran(v) == [done |-> TRUE,  value |-> v]

GetAllLocations ==
    /\ allLocs' = Ran(getAllLocations(items))
    /\ tripBounds' = NotRun
    /\ route' = NotRun
    /\ filtered' = NotRun
    /\ UNCHANGED <<items, geoVars, storeVars>>

CalculateTripBounds ==
    /\ tripBounds' = Ran(calculateTripBounds(items))
    /\ allLocs' = NotRun
    /\ route' = NotRun
    /\ filtered' = NotRun
    /\ UNCHANGED <<items, geoVars, storeVars>>

GetRouteLocations ==
    /\ route' = Ran(getRouteLocations(items))
    /\ items' = SortCopy(items).arg
    /\ allLocs' = NotRun
    /\ tripBounds' = NotRun
    /\ filtered' = NotRun
    /\ UNCHANGED <<geoVars, storeVars>>

FilterItemsByType(type) ==
    /\ filtered' = Ran(filterItemsByType(items, type))
    /\ allLocs' = NotRun
    /\ tripBounds' = NotRun
    /\ route' = NotRun
    /\ UNCHANGED <<items, geoVars, storeVars>>

GetItemsByDateRange(startDate, endDate) ==
    /\ filtered' = Ran(getItemsByDateRange(items, startDate, endDate))
    /\ allLocs' = NotRun
    /\ tripBounds' = NotRun
    /\ route' = NotRun
    /\ UNCHANGED <<items, geoVars, storeVars>>

\* ======================================================================
\*                           SPECIFICATIONS
\* ======================================================================
InitGeoVars ==
    /\ now = MIN_REQUEST_INTERVAL    \* Date.now() is far beyond the interval
    /\ lastRequestTime = 0           \* geocoding.ts:7
    /\ pc = [c \in Callers |-> "idle"]
    /\ wake = [c \in Callers |-> 0]
    /\ kind = [c \in Callers |-> "geocode"]
    /\ settled = [kind |-> "none", cond |-> "none", outcome |-> NoOutcome]
    /\ requests = <<>>
    /\ sent = [c \in Callers |-> 0]

InitStoreVars(blobs) ==
    /\ storage \in [trips : blobs, current : {NoId}]
    /\ result = NoResult
    /\ raised = FALSE
    /\ reported = FALSE
    /\ lastOp = "none"
    /\ lastGoodSave = [known |-> FALSE, trips |-> <<>>]

InitItemVars ==
    /\ items = <<>>
    /\ allLocs = NotRun
    /\ tripBounds = NotRun
    /\ route = NotRun
    /\ filtered = NotRun

InitGeo == InitGeoVars /\ InitStoreVars({AbsentBlob}) /\ InitItemVars

NextGeo ==
    \/ \E c \in Callers, a \in Addresses : geocodeAddress(c, a)
    \/ \E c \in Callers : reverseGeocode(c)
    \/ \E c \in Callers : TimerFire(c)
    \/ \E c \in Callers, r \in Responses : Respond(c, r)
    \/ Tick

SpecGeo == InitGeo /\ [][NextGeo]_vars

\* Timers fire and time passes: the event loop runs every due timer.
SpecGeoFair ==
    /\ SpecGeo
    /\ WF_vars(Tick)
    /\ \A c \in Callers : WF_vars(TimerFire(c))

InitStore == InitGeoVars /\ InitStoreVars(InitialBlobs) /\ InitItemVars

NextStore ==
    \/ \E t \in TripSets, f \in BOOLEAN : SaveTrips(t, f)
    \/ LoadTrips
    \/ ClearStorage
    \/ \E id \in TripIdInputs, f \in BOOLEAN : SaveCurrentTripId(id, f)
    \/ LoadCurrentTripId

SpecStore == InitStore /\ [][NextStore]_vars

InitItems ==
    /\ InitGeoVars
    /\ InitStoreVars({AbsentBlob})
    /\ items \in ItemCollections(MaxItems)
    /\ allLocs = NotRun
    /\ tripBounds = NotRun
    /\ route = NotRun
    /\ filtered = NotRun

NextItems ==
    \/ GetAllLocations
    \/ CalculateTripBounds
    \/ GetRouteLocations
    \/ \E t \in ItemTypes : FilterItemsByType(t)
    \/ \E d, e \in StartDates : GetItemsByDateRange(d, e)

SpecItems == InitItems /\ [][NextItems]_vars

\* ---------------------------------------------------------------------
\* C1: no two outbound provider requests are issued less than
\* MIN_REQUEST_INTERVAL apart, whatever the interleaving of callers.
C1_MinIntervalBetweenRequests ==
    \A i, j \in 1..Len(requests) :
        i < j => requests[j] - requests[i] >= MIN_REQUEST_INTERVAL

\* ---------------------------------------------------------------------
\* C9: the three failure conditions of geocodeAddress (blank address, no
\* match, transport/provider failure) give the caller pairwise different
\* error outcomes: the error a failed call ends with is never the error
\* that a failure for one of the other two conditions produces.
C9_ErrorConditionsDistinguishable ==
    ( /\ settled.kind = "geocode"
      /\ settled.outcome.settled = "rejected" )
    => /\ settled.cond # "blank" => settled.outcome # EmptyAddressError
       /\ \A r \in Responses :
             CondOf(r) \notin {"none", settled.cond}
                 => settled.outcome # GeocodeSettle(r)

\* A geocodeAddress call has failed because the provider found no match.
C9_Witness ==
    /\ settled.kind = "geocode"
    /\ settled.outcome.settled = "rejected"
    /\ settled.cond = "notfound"

\* ---------------------------------------------------------------------
\* C10: a call that arrives before the minimum interval has elapsed is
\* delayed, not rejected: provided timers fire, every waiting caller
\* eventually issues its outbound request.
C10_DelayedCallEventuallyIssues ==
    \A c \in Callers : (pc[c] = "waiting") ~> (pc[c] = "fetching")

\* Every caller was delayed by the limiter and has then issued its request.
C10_Witness ==
    \A c \in Callers : pc[c] = "fetching" /\ wake[c] # 0

\* ---------------------------------------------------------------------
\* C2: round trip.  After saveTrips(T) has written a well-formed trip set
\* T, loadTrips() returns a trip set equal to T: every timestamp is the
\* same instant, restored as a Date according to the item's type tag, and
\* an absent endDate is still absent.
C2_LoadAfterSaveRoundTrips ==
    (lastOp = "loadTrips" /\ lastGoodSave.known)
        => result.trips = lastGoodSave.trips

\* loadTrips has returned a saved set that holds a flight without endDate
\* and an accommodation.
C2_Witness ==
    /\ lastOp = "loadTrips"
    /\ lastGoodSave.known
    /\ Len(result.trips) = 2
    /\ \E i \in 1..2 : \E n \in DOMAIN result.trips[i].items :
          /\ result.trips[i].items[n].type = "flight"
          /\ result.trips[i].items[n].endDate = Undefined
    /\ \E i \in 1..2 : \E n \in DOMAIN result.trips[i].items :
          result.trips[i].items[n].type = "accommodation"

\* ---------------------------------------------------------------------
\* C3: a saveTrips whose store write fails reports the failure, does not
\* raise, and leaves the store as it was; loadTrips then still gives the
\* trip set of the last save that was written.
C3_FailedSaveLeavesStore ==
    [][ (lastOp' = "saveTrips" /\ reported')
            => /\ ~raised'
               /\ storage' = storage
               /\ lastGoodSave.known
                    => loadTrips(storage').value = lastGoodSave.trips ]_vars

\* A save has failed after an earlier save of a non-empty set was written.
C3_Witness ==
    /\ lastOp = "saveTrips"
    /\ reported
    /\ lastGoodSave.known
    /\ Len(lastGoodSave.trips) > 0
    /\ storage.trips = serializeTrips(lastGoodSave.trips)

\* ---------------------------------------------------------------------
\* C4: loadTrips never raises; when the trips key is absent, holds empty
\* text, or holds text that cannot be parsed and revived as an array of
\* trips (parsing or reviving throws), it returns the empty trip set.
C4_LoadNeverRaises ==
    lastOp = "loadTrips"
        => /\ ~raised
           /\ ( \/ storage.trips.k \in {"absent", "empty"}
                \/ deserializeTrips(storage.trips).threw )
                => result.trips = <<>>

\* loadTrips has run on JSON text whose revival throws.
C4_Witness ==
    /\ lastOp = "loadTrips"
    /\ storage.trips.k = "json"
    /\ deserializeTrips(storage.trips).threw
    /\ reported

\* ---------------------------------------------------------------------
\* C5: the persisted current trip id is null or the id of a trip of the
\* persisted trip set, after any sequence of saveTrips, saveCurrentTripId
\* and clearStorage calls.
C5_CurrentIdReferencesPersistedTrip ==
    \/ storage.current = NoId
    \/ \E i \in DOMAIN loadTrips(storage).value :
          /\ "id" \in DOMAIN loadTrips(storage).value[i]
          /\ loadTrips(storage).value[i].id = storage.current

\* ---------------------------------------------------------------------
\* Counting and tracing used by the claims on the derivation helpers.
CountType(its, t) == Cardinality({k \in DOMAIN its : its[k].type = t})
SourceOf(loc) == loc.address[1]

\* ---------------------------------------------------------------------
\* C6: getRouteLocations returns 2 x flights + activities locations, none
\* of them an accommodation's; they follow the items in ascending
\* startDate order, equal startDates in input order, each flight giving
\* its origin immediately followed by its destination.
C6_RouteLocations ==
    route.done =>
      LET r == route.value IN
      /\ Len(r) = 2 * CountType(items, "flight") + CountType(items, "activity")
      /\ \A n \in DOMAIN r : items[SourceOf(r[n])].type # "accommodation"
      /\ \A k \in DOMAIN items :
            /\ items[k].type = "flight" =>
                  \E n \in 1..(Len(r) - 1) :
                      r[n] = items[k].origin /\ r[n + 1] = items[k].destination
            /\ items[k].type = "activity" =>
                  \E n \in DOMAIN r : r[n] = items[k].location
      /\ \A m, n \in DOMAIN r :
            (m < n /\ SourceOf(r[m]) # SourceOf(r[n])) =>
                \/ items[SourceOf(r[m])].startDate < items[SourceOf(r[n])].startDate
                \/ /\ items[SourceOf(r[m])].startDate = items[SourceOf(r[n])].startDate
                   /\ SourceOf(r[m]) < SourceOf(r[n])

\* A route was computed from a collection that holds an accommodation and
\* in which a later item starts before an earlier one and two items tie.
C6_Witness ==
    /\ route.done
    /\ Len(items) = 3
    /\ items[1].type = "flight" /\ items[2].type = "accommodation"
    /\ items[3].type = "activity"
    /\ items[1].startDate = 2 /\ items[2].startDate = 2 /\ items[3].startDate = 1
    /\ Len(route.value) = 3

C8_TripBounds ==
    tripBounds.done =>
      LET b    == tripBounds.value
          locs == getAllLocations(items)
          lats == {locs[n].lat : n \in DOMAIN locs}
          lngs == {locs[n].lng : n \in DOMAIN locs}
      IN  /\ b.defined <=> locs # <<>>
          /\ b.defined =>
                /\ b.south \in lats /\ \A x \in lats : b.south <= x
                /\ b.north \in lats /\ \A x \in lats : b.north >= x
                /\ b.west \in lngs /\ \A x \in lngs : b.west <= x
                /\ b.east \in lngs /\ \A x \in lngs : b.east >= x
          /\ Len(locs) = 1 =>
                /\ b.south = locs[1].lat /\ b.north = locs[1].lat
                /\ b.west = locs[1].lng /\ b.east = locs[1].lng

\* Bounds were computed over locations that differ in latitude and longitude.
C8_Witness ==
    /\ tripBounds.done
    /\ tripBounds.value.defined
    /\ tripBounds.value.south < tripBounds.value.north
    /\ tripBounds.value.west < tripBounds.value.east

\* ---------------------------------------------------------------------
\* C11: clearStorage resets all persisted data: once it has returned,
\* loadTrips gives the empty trip set and loadCurrentTripId gives null.
C11_ClearStorageResetsAll ==
    lastOp = "clearStorage"
        => /\ loadTrips(storage).value = <<>>
           /\ loadCurrentTripId(storage) = NoId

C14_BlankCallLeavesLimiter ==
    [][ (settled' # settled /\ settled'.cond = "blank")
            => /\ settled'.outcome = EmptyAddressError
               /\ lastRequestTime' = lastRequestTime
               /\ requests' = requests
               /\ pc' = pc /\ wake' = wake /\ sent' = sent ]_vars

\* A blank call was rejected inside the minimum interval after a request:
\* the limiter still holds the instant of that request.
C14_Witness ==
    /\ settled.cond = "blank"
    /\ Len(requests) = 1
    /\ lastRequestTime = requests[1]
    /\ now > lastRequestTime
    /\ now - lastRequestTime < MIN_REQUEST_INTERVAL

\* ---------------------------------------------------------------------
\* C13: the derivation helpers are pure: filterItemsByType,
\* getItemsByDateRange, getAllLocations, calculateTripBounds and
\* getRouteLocations leave the item collection they are given unchanged,
\* the same items in the same order; getRouteLocations sorts a copy.
C13_HelpersLeaveItemsUnchanged ==
    [][items' = items]_vars

\* getRouteLocations has returned a route whose order differs from the
\* order of the items, which still start with a later item.
C13_Witness ==
    /\ route.done
    /\ Len(items) >= 2
    /\ items[1].type = "activity" /\ items[2].type = "activity"
    /\ items[1].startDate > items[2].startDate
    /\ route.value = <<items[2].location, items[1].location>>

====
